---- MODULE Spec2Model ----
(***************************************************************************)
(* Session-based signup / login / role-gated pages / admin promote-demote  *)
(* of the five application variants of the repository:                     *)
(*   "usertype"  src/app.js (and its commented twin src/unnamed/part_001)  *)
(*   "nocatch"   src/unnamed/part_000, lines 67-300                        *)
(*   "suffix"    src/unnamed/part_000, lines 302-433                       *)
(*   "role"      src/unnamed/part_000, lines 435-639                       *)
(*   "fixed"     src/unnamed/part_002                                      *)
(* A request is a process: it loads the session when it starts, runs its   *)
(* handler with one step per awaited call, and flushes the session when    *)
(* the response ends.                                                      *)
(***************************************************************************)
EXTENDS Integers, Sequences, FiniteSets, TLC

VARIABLES variant, users, store, live, expiry, nextSid, reqs, last, nreq, now

vars == <<variant, users, store, live, expiry, nextSid, reqs, last, nreq, now>>

\* ---------------------------------------------------------------- bounds
MaxUsers == 2
MaxReq == 2
MaxSid == 2
MaxSalt == 1
MaxRequests == 3
MaxTime == 3

\* ------------------------------------------------------ program constants
saltRounds == 12
NameMax == 50
PasswordMin == 6

\* const expireTime = 60 * 60 * 1000, in milliseconds.
expireTime == 60 * 60 * 1000

\* The clock advances in steps of half an hour.
TickMs == 30 * 60 * 1000

Variants == {"usertype", "nocatch", "suffix", "role", "fixed"}

Undef == "undefined"

\* ------------------------------------------------------------ input sets
\* An email address is the pair <<local part, domain>>; a string without
\* "@" has no domain; an absent field is the empty tuple.
NoEmail == <<>>

NotAnEmail == <<"not-an-email">>

LongName == "AAAAAAAAAABBBBBBBBBBCCCCCCCCCCDDDDDDDDDDEEEEEEEEEEF"

\* The second address signups use: the one the variant treats specially
\* (email.endsWith('@admin.com'), email === 'admin@example.com').
SpecialEmail(v) ==
  IF v = "fixed" THEN <<"admin", "example.com">> ELSE <<"bob", "admin.com">>

SignupBodies(v) ==
  { [name |-> "Ann", email |-> <<"ann", "x.com">>, password |-> "secret1"],
    [name |-> "Ann", email |-> <<"ann", "x.com">>, password |-> "secret2"],
    [name |-> "Bob", email |-> SpecialEmail(v),    password |-> "secret2"],
    [name |-> Undef, email |-> <<"ann", "x.com">>, password |-> "secret1"],
    [name |-> LongName, email |-> NotAnEmail,      password |-> "abc"],
    [name |-> "Ann", email |-> NoEmail,            password |-> "secret1"],
    [name |-> "Ann", email |-> NotAnEmail,         password |-> Undef],
    [name |-> "Ann", email |-> <<"ann", "x.com">>, password |-> "abc"],
    [name |-> "Ann", email |-> <<"ann", "x.com">>, password |-> Undef] }

LoginEmails(v) ==
  { <<"root", "x.com">>, <<"ann", "x.com">>, SpecialEmail(v), NotAnEmail, NoEmail }

LoginBodies(v) ==
  { [name |-> Undef, email |-> e, password |-> p] :
      e \in LoginEmails(v), p \in {"secret1", "secret2", Undef} }

NoBody == [name |-> Undef, email |-> NoEmail, password |-> Undef]

\* Every combination of an absent, an empty, an ill-formed and a well-formed
\* value of each field of req.body.
FieldNames == {Undef, "", "Ann", LongName}

FieldEmails == {NoEmail, NotAnEmail, <<"ann", "">>, <<"ann", "x.com">>}

FieldPasswords == {Undef, "", "abc", "secret1"}

AllSignupBodies ==
  { [name |-> n, email |-> e, password |-> p] :
      n \in FieldNames, e \in FieldEmails, p \in FieldPasswords }

AllLoginBodies ==
  { [name |-> Undef, email |-> e, password |-> p] :
      e \in FieldEmails, p \in FieldPasswords }

\* ":id" of /promote/:id and /demote/:id: ids of stored records, an id of
\* no record, and a string that is no ObjectId.
Malformed == -1

IdParams == (1..(MaxUsers + 2)) \cup {Malformed}

\* ------------------------------------------------------- password hasher
Salts == 1..MaxSalt

\* bcrypt.hash(password, saltRounds) with the salt it generates: the stored
\* value carries the cost and the salt and is no plaintext.
bcryptHash(password, rounds, salt) == <<"$2b$", rounds, salt, password>>

NoHash == <<>>

bcryptCompare_AnyPassword(password, hash) ==
  Len(hash) = 4

\* bcrypt.compare(password, hash): rehashes with the cost and salt read
\* from the hash; a value that is no bcrypt hash matches nothing.
bcryptCompare(password, hash) ==
  /\ Len(hash) = 4
  /\ hash = bcryptHash(password, hash[2], hash[3])

\* -------------------------------------------------------- input validator
\* Joi.string().required(): a present, non-empty string.
JoiString(v) == v # Undef /\ v # ""

\* Joi.string().email().required()
JoiEmailPresent(v) == v # NoEmail

JoiEmail(v) == Len(v) = 2 /\ v[1] # "" /\ v[2] # ""

SignupSchema_NoValidation(body) == "ok"

SignupSchema_PasswordFirst(body) ==
  IF ~JoiString(body.password) THEN "password.required"
  ELSE IF Len(body.password) < PasswordMin THEN "password.min"
  ELSE IF ~JoiString(body.name) THEN "name.required"
  ELSE IF Len(body.name) > NameMax THEN "name.max"
  ELSE IF ~JoiEmailPresent(body.email) THEN "email.required"
  ELSE IF ~JoiEmail(body.email) THEN "email.email"
  ELSE "ok"

\* schema.validate of POST /signup: the first failing key in declaration
\* order gives details[0]; "ok" when there is no error.
SignupSchema(body) ==
  IF ~JoiString(body.name) THEN "name.required"
  ELSE IF Len(body.name) > NameMax THEN "name.max"
  ELSE IF ~JoiEmailPresent(body.email) THEN "email.required"
  ELSE IF ~JoiEmail(body.email) THEN "email.email"
  ELSE IF ~JoiString(body.password) THEN "password.required"
  ELSE IF Len(body.password) < PasswordMin THEN "password.min"
  ELSE "ok"

\* schema.validate of POST /login
LoginSchema(body) ==
  IF ~JoiEmailPresent(body.email) THEN "email.required"
  ELSE IF ~JoiEmail(body.email) THEN "email.email"
  ELSE IF ~JoiString(body.password) THEN "password.required"
  ELSE "ok"

\* ------------------------------------------------------ credential store
\* A document of the users collection; role is the user_type field of the
\* usertype/nocatch variants and the role field of the others; Undef when
\* the document has no such field.
NoUser == [id |-> 0, name |-> Undef, email |-> NoEmail, password |-> NoHash,
           role |-> Undef]

\* The collection holds one admin document written outside the application:
\* the usertype, nocatch and role variants have no route that creates one.
Root == [id |-> 1, name |-> "Root", email |-> <<"root", "x.com">>,
         password |-> bcryptHash("secret1", saltRounds, 1), role |-> "admin"]

findOneByEmail_FirstDocument(coll, email) ==
  IF Len(coll) > 0 /\ coll[1].email = email THEN coll[1] ELSE NoUser

\* collection.findOne({ email }): the first document with that email.
findOneByEmail(coll, email) ==
  IF \E i \in 1..Len(coll) : coll[i].email = email
  THEN coll[CHOOSE i \in 1..Len(coll) :
              /\ coll[i].email = email
              /\ \A j \in 1..(i - 1) : coll[j].email # email]
  ELSE NoUser

\* collection.findOne({ _id: new ObjectId(id) })
findOneById(coll, id) ==
  IF id \in 1..Len(coll) THEN coll[id] ELSE NoUser

\* collection.insertOne(doc): appends; the store assigns the _id and checks
\* nothing (no unique index is declared anywhere).
insertOne(coll, name, email, password, role) ==
  Append(coll, [id |-> Len(coll) + 1, name |-> name, email |-> email,
                password |-> password, role |-> role])

updateOne_Toggle(coll, id, role) ==
  IF id \in 1..Len(coll)
  THEN [coll EXCEPT ![id].role = IF @ = "admin" THEN "user" ELSE "admin"]
  ELSE coll

updateOne_Replace(coll, id, role) ==
  IF id \in 1..Len(coll)
  THEN [coll EXCEPT ![id] = [NoUser EXCEPT !.id = id, !.role = role]]
  ELSE coll

\* collection.updateOne({ _id }, { $set: { <role field>: role } }); no
\* matching document is not an error.
updateOne(coll, id, role) ==
  IF id \in 1..Len(coll)
  THEN [coll EXCEPT ![id].role = role]
  ELSE coll

\* ------------------------------------------------------------- sessions
\* req.session. The field uid is history, written together with the
\* program's fields: the _id of the User document the session was last
\* authenticated as.
EmptySession == [authenticated |-> FALSE, username |-> Undef, email |-> NoEmail,
                 role |-> Undef, user |-> NoUser, uid |-> 0]

SessionIds == 1..MaxSid

\* ----------------------------------------------------- variant specifics
AllRoutes == {"POST /signup", "POST /login", "GET /members", "GET /user",
              "GET /admin", "GET /promote", "GET /demote", "GET /logout"}

\* The routes each variant registers; any other request reaches the 404
\* handler.
Registered(v) ==
  CASE v \in {"usertype", "nocatch"} ->
         AllRoutes \ {"GET /user"}
    [] v = "suffix" ->
         {"POST /signup", "POST /login", "GET /user", "GET /admin", "GET /logout"}
    [] v = "role" ->
         AllRoutes \ {"GET /members"}
    [] v = "fixed" ->
         {"POST /signup", "POST /login", "GET /members", "GET /logout"}

\* Whether the handler of the route wraps its body in try/catch.
TryCatch(v, route) ==
  \/ v = "usertype"
  \/ v = "suffix" /\ route \in {"POST /signup", "POST /login"}

\* POST /signup of the suffix and fixed variants hashes the password before
\* it looks the email up.
HashFirst(v) == v \in {"suffix", "fixed"}

\* The role field POST /signup inserts.
signupRole(v, email) ==
  CASE v = "usertype" -> "user"
    [] v = "nocatch" -> Undef
    [] v = "suffix" -> IF email[2] = "admin.com" THEN "admin" ELSE "user"
    [] v = "role" -> "user"
    [] v = "fixed" -> IF email = <<"admin", "example.com">> THEN "admin" ELSE "user"

signupSession_NoEmail(v, s, doc) ==
  [s EXCEPT !.uid = doc.id, !.authenticated = TRUE, !.username = doc.name,
            !.role = doc.role]

\* The session fields POST /signup assigns after the insert.
signupSession(v, s, doc) ==
  LET h == [s EXCEPT !.uid = doc.id] IN
  CASE v \in {"usertype", "nocatch"} ->
         [h EXCEPT !.authenticated = TRUE, !.username = doc.name,
                   !.email = doc.email]
    [] v = "suffix" ->
         [h EXCEPT !.authenticated = TRUE, !.username = doc.name,
                   !.role = doc.role]
    [] v \in {"role", "fixed"} ->
         [h EXCEPT !.authenticated = TRUE, !.username = doc.name,
                   !.email = doc.email, !.role = doc.role]

loginSession_UserOnly(v, s, user) ==
  [s EXCEPT !.uid = user.id, !.username = user.name, !.user = user,
            !.role = user.role]

\* The session fields POST /login assigns after bcrypt.compare succeeded.
loginSession(v, s, user) ==
  LET h == [s EXCEPT !.uid = user.id] IN
  CASE v \in {"usertype", "nocatch"} ->
         [h EXCEPT !.authenticated = TRUE, !.username = user.name,
                   !.email = user.email, !.user = user]
    [] v = "suffix" ->
         [h EXCEPT !.authenticated = TRUE, !.username = user.name,
                   !.role = IF user.role = Undef THEN "user" ELSE user.role]
    [] v \in {"role", "fixed"} ->
         [h EXCEPT !.authenticated = TRUE, !.username = user.name,
                   !.email = user.email, !.role = user.role]

signupRedirect(v, role) ==
  CASE v \in {"usertype", "nocatch", "fixed"} -> "/members"
    [] v = "suffix" -> IF role = "admin" THEN "/admin" ELSE "/user"
    [] v = "role" -> "/user"

loginRedirect(v, user) ==
  CASE v \in {"usertype", "nocatch", "fixed"} -> "/members"
    [] v \in {"suffix", "role"} ->
         IF user.role = "admin" THEN "/admin" ELSE "/user"

DuplicateMessage(v) ==
  IF v = "role" THEN "User already exists."
  ELSE "User with that email already exists!"

\* function isAuthenticated(req, res, next)
isAuthenticated(s) == s.user # NoUser

\* function isAdmin(req, res, next)
isAdmin(s) == s.user # NoUser /\ s.user.role = "admin"

\* The inline guard of the role variant's /admin, /promote/:id, /demote/:id
\* (and of the suffix variant's /admin).
roleIsAdmin(s) == s.authenticated /\ s.role = "admin"

\* --------------------------------------------------------------- outcomes
Out(status, kind, to, msg) ==
  [status |-> status, kind |-> kind, to |-> to, msg |-> msg]

Redirect(path) == Out(302, "redirect", path, "")

Render(view, msg) == Out(200, "render", view, msg)

Forbidden(v) ==
  IF v = "role" THEN Out(403, "send", "Access denied", "")
  ELSE Out(403, "render", "403", "")

NoResponse == Out(0, "none", "", "")

\* The catch block of the route's handler.
CatchOutcome(route) ==
  CASE route = "POST /signup" -> Out(500, "render", "signup", "unexpected")
    [] route = "POST /login" -> Out(500, "render", "login", "unexpected")
    [] OTHER -> Out(500, "render", "500", "")

\* --------------------------------------------------------------- requests
Slots == 1..MaxReq

IdleReq == [pc |-> "idle", route |-> "", sessionID |-> 0, isNew |-> FALSE,
            session |-> EmptySession, body |-> NoBody, id |-> 0,
            hashed |-> NoHash, found |-> NoUser]

\* store.get(sid) of the session store: the session document of that id
\* whose expires lies after the present time, if there is one.
storeGet(sid) == sid \in live /\ expiry[sid] > now

\* The session middleware at the start of a request: the stored session of
\* the cookie's id, or a new empty session when the store has none; the new
\* session's id (0 here) is one no cookie carries yet.
NewReq(route, cookie, body, id) ==
  [pc |-> "begin", route |-> route,
   sessionID |-> IF storeGet(cookie) THEN cookie ELSE 0,
   isNew |-> ~storeGet(cookie),
   session |-> IF storeGet(cookie) THEN store[cookie] ELSE EmptySession,
   body |-> body, id |-> id, hashed |-> NoHash, found |-> NoUser]

\* A request carries no cookie (0) or the id of a session issued before.
Cookies == 0..(nextSid - 1)

HasFree == \E r \in Slots : reqs[r].pc = "idle"

Free == CHOOSE r \in Slots :
          /\ reqs[r].pc = "idle"
          /\ \A k \in Slots : reqs[k].pc = "idle" => r <= k

PendingNew ==
  Cardinality({r \in Slots : /\ reqs[r].pc # "idle"
                             /\ reqs[r].isNew
                             /\ reqs[r].route \in {"POST /signup", "POST /login"}})

PendingSignup ==
  Cardinality({r \in Slots : reqs[r].pc # "idle" /\ reqs[r].route = "POST /signup"})

\* The model's capacity: session ids and User documents left for the
\* request that starts.
RoomFor(q) ==
  /\ q.isNew => (nextSid - 1) + PendingNew < MaxSid
  /\ q.route = "POST /signup" => (Len(users) - 1) + PendingSignup < MaxUsers

\* The model's budget of requests.
Count == nreq < MaxRequests /\ nreq' = nreq + 1 /\ UNCHANGED now

Start(q, pc) ==
  /\ HasFree
  /\ RoomFor(q)
  /\ reqs' = [reqs EXCEPT ![Free] = [q EXCEPT !.pc = pc]]
  /\ UNCHANGED <<variant, users, store, live, expiry, nextSid, last>>

touch_KeepExpires(sid) == IF sid \in live THEN expiry[sid] ELSE now + expireTime

\* req.session.touch() at the end of a response: the cookie's expires is set
\* to the present time plus the maxAge the handler of signup or login gave
\* it (req.session.cookie.maxAge = expireTime); the store saves the session
\* with that expires.
touch(sid) == now + expireTime

\* The end of a response (session middleware, saveUninitialized: false,
\* resave: true): a session loaded from the store is saved back whether or
\* not the handler changed it; a new session is saved, under a new id, only
\* when the handler wrote to it.
Respond(q, out, sess, doc) ==
  /\ last' = [route |-> q.route, sessionID |-> q.sessionID, before |-> q.session,
              after |-> sess, outcome |-> out, id |-> q.id, doc |-> doc,
              sid |-> IF q.isNew
                      THEN (IF sess # q.session THEN nextSid ELSE 0)
                      ELSE q.sessionID]
  /\ IF q.isNew
     THEN IF sess # q.session
          THEN /\ store' = [store EXCEPT ![nextSid] = sess]
               /\ live' = live \cup {nextSid}
               /\ expiry' = [expiry EXCEPT ![nextSid] = touch(nextSid)]
               /\ nextSid' = nextSid + 1
          ELSE UNCHANGED <<store, live, expiry, nextSid>>
     ELSE /\ store' = [store EXCEPT ![q.sessionID] = sess]
          /\ live' = live \cup {q.sessionID}
          /\ expiry' = [expiry EXCEPT ![q.sessionID] = touch(q.sessionID)]
          /\ UNCHANGED nextSid

\* An exception in the handler: the catch block answers where there is
\* one; otherwise the rejection of the async handler leaves the handler,
\* and the request gets no response (Express 4) or the framework's default
\* 500 response (Express 5).
Fail(q) ==
  IF TryCatch(variant, q.route)
  THEN Respond(q, CatchOutcome(q.route), q.session, NoUser)
  ELSE \/ /\ last' = [route |-> q.route, sessionID |-> q.sessionID,
                      before |-> q.session, after |-> q.session,
                      outcome |-> NoResponse, id |-> q.id, doc |-> NoUser,
                      sid |-> 0]
          /\ UNCHANGED <<store, live, expiry, nextSid>>
       \/ Respond(q, Out(500, "send", "Internal Server Error", "escaped"),
                  q.session, NoUser)

Done(r) == reqs' = [reqs EXCEPT ![r] = IdleReq]

\* ----------------------------------------------------------- POST /signup
\* app.post('/signup'): validation, then the first awaited call.
PostSignup(cookie, body) ==
  LET q == NewReq("POST /signup", cookie, body, 0)
      v == SignupSchema(body) IN
  /\ Count
  /\ "POST /signup" \in Registered(variant)
  /\ IF v # "ok"
     THEN /\ Respond(q, Render("signup", v), q.session, NoUser)
          /\ UNCHANGED <<variant, users, reqs>>
     ELSE Start(q, IF HashFirst(variant) THEN "hash" ELSE "findOne")

\* await userCollection.findOne({ email }) and the existingUser branch.
PostSignupFindOne(r) ==
  LET q == reqs[r]
      existingUser == findOneByEmail(users, q.body.email) IN
  /\ UNCHANGED <<nreq, now>>
  /\ q.route = "POST /signup" /\ q.pc = "findOne"
  /\ IF existingUser # NoUser
     THEN /\ Respond(q, Render("signup", DuplicateMessage(variant)), q.session, NoUser)
          /\ Done(r)
          /\ UNCHANGED <<variant, users>>
     ELSE /\ reqs' = [reqs EXCEPT ![r].pc =
                        IF HashFirst(variant) THEN "insertOne" ELSE "hash"]
          /\ UNCHANGED <<variant, users, store, live, expiry, nextSid, last>>

\* await bcrypt.hash(password, saltRounds)
PostSignupHash(r) ==
  LET q == reqs[r] IN
  /\ UNCHANGED <<nreq, now>>
  /\ q.route = "POST /signup" /\ q.pc = "hash"
  /\ \E salt \in Salts :
       reqs' = [reqs EXCEPT
                  ![r].hashed = bcryptHash(q.body.password, saltRounds, salt),
                  ![r].pc = IF HashFirst(variant) THEN "findOne" ELSE "insertOne"]
  /\ UNCHANGED <<variant, users, store, live, expiry, nextSid, last>>

\* await userCollection.insertOne(...), the session writes and the redirect.
PostSignupInsertOne(r) ==
  LET q == reqs[r]
      role == signupRole(variant, q.body.email)
      coll == insertOne(users, q.body.name, q.body.email, q.hashed, role)
      doc == coll[Len(coll)]
      sess == signupSession(variant, q.session, doc) IN
  /\ UNCHANGED <<nreq, now>>
  /\ q.route = "POST /signup" /\ q.pc = "insertOne"
  /\ users' = coll
  /\ Respond(q, Redirect(signupRedirect(variant, role)), sess, doc)
  /\ Done(r)
  /\ UNCHANGED variant

\* ------------------------------------------------------------ POST /login
PostLogin(cookie, body) ==
  LET q == NewReq("POST /login", cookie, body, 0)
      v == LoginSchema(body) IN
  /\ Count
  /\ "POST /login" \in Registered(variant)
  /\ IF v # "ok"
     THEN /\ Respond(q, Render("login", v), q.session, NoUser)
          /\ UNCHANGED <<variant, users, reqs>>
     ELSE Start(q, "findOne")

\* await userCollection.findOne({ email }) and the !user branch.
PostLoginFindOne(r) ==
  LET q == reqs[r]
      user == findOneByEmail(users, q.body.email) IN
  /\ UNCHANGED <<nreq, now>>
  /\ q.route = "POST /login" /\ q.pc = "findOne"
  /\ IF user = NoUser
     THEN /\ Respond(q, Render("login", "User not found"), q.session, NoUser)
          /\ Done(r)
          /\ UNCHANGED <<variant, users>>
     ELSE /\ reqs' = [reqs EXCEPT ![r].found = user, ![r].pc = "compare"]
          /\ UNCHANGED <<variant, users, store, live, expiry, nextSid, last>>

\* await bcrypt.compare(password, user.password), the session writes and
\* the response.
PostLoginCompare(r) ==
  LET q == reqs[r]
      validPassword == bcryptCompare(q.body.password, q.found.password) IN
  /\ UNCHANGED <<nreq, now>>
  /\ q.route = "POST /login" /\ q.pc = "compare"
  /\ IF validPassword
     THEN Respond(q, Redirect(loginRedirect(variant, q.found)),
                  loginSession(variant, q.session, q.found), q.found)
     ELSE Respond(q, Render("login", "Incorrect password"), q.session, NoUser)
  /\ Done(r)
  /\ UNCHANGED <<variant, users>>

\* ----------------------------------------------------------- GET /members
GetMembers(cookie) ==
  LET q == NewReq("GET /members", cookie, NoBody, 0) IN
  /\ Count
  /\ "GET /members" \in Registered(variant)
  /\ IF ~q.session.authenticated
     THEN /\ Respond(q, Redirect("/"), q.session, NoUser)
          /\ UNCHANGED <<variant, users, reqs>>
     ELSE IF variant = "fixed"
     THEN /\ Respond(q, Render(IF q.session.role = "admin" THEN "admin" ELSE "user", ""),
                     q.session, NoUser)
          /\ UNCHANGED <<variant, users, reqs>>
     ELSE Start(q, "findOne")

\* await userCollection.findOne({ email: req.session.email })
GetMembersFindOne(r) ==
  LET q == reqs[r]
      user == findOneByEmail(users, q.session.email) IN
  /\ UNCHANGED <<nreq, now>>
  /\ q.route = "GET /members" /\ q.pc = "findOne"
  /\ IF user = NoUser
     THEN Respond(q, Redirect("/"), q.session, NoUser)
     ELSE Respond(q, Render("members", user.name), q.session, NoUser)
  /\ Done(r)
  /\ UNCHANGED <<variant, users>>

\* -------------------------------------------------------------- GET /user
GetUser(cookie) ==
  LET q == NewReq("GET /user", cookie, NoBody, 0) IN
  /\ Count
  /\ "GET /user" \in Registered(variant)
  /\ IF ~q.session.authenticated \/ q.session.role # "user"
     THEN Respond(q, Redirect("/"), q.session, NoUser)
     ELSE Respond(q, Render("user", q.session.username), q.session, NoUser)
  /\ UNCHANGED <<variant, users, reqs>>

\* ------------------------------------------------------------- GET /admin
AdminGate_AuthenticatedOnly(v, s) ==
  IF s.authenticated THEN Out(0, "pass", "", "") ELSE Redirect("/login")

AdminGate_LiveRole(v, s) ==
  IF ~s.authenticated THEN Redirect("/login")
  ELSE IF findOneById(users, s.uid).role # "admin" THEN Forbidden(v)
  ELSE Out(0, "pass", "", "")

\* The guards in front of an admin-only handler: "pass", or the response
\* that ends the request.
AdminGate(v, s) ==
  CASE v \in {"usertype", "nocatch"} ->
         IF ~isAuthenticated(s) THEN Redirect("/login")
         ELSE IF ~isAdmin(s) THEN Forbidden(v)
         ELSE Out(0, "pass", "", "")
    [] v = "suffix" ->
         IF ~roleIsAdmin(s) THEN Redirect("/") ELSE Out(0, "pass", "", "")
    [] v = "role" ->
         IF ~roleIsAdmin(s) THEN Forbidden(v) ELSE Out(0, "pass", "", "")
    [] OTHER -> Out(404, "render", "404", "")

GetAdmin(cookie) ==
  LET q == NewReq("GET /admin", cookie, NoBody, 0)
      gate == AdminGate(variant, q.session) IN
  /\ Count
  /\ "GET /admin" \in Registered(variant)
  /\ IF gate.kind # "pass"
     THEN /\ Respond(q, gate, q.session, NoUser)
          /\ UNCHANGED <<variant, users, reqs>>
     ELSE IF variant = "suffix"
     THEN /\ Respond(q, Render("admin", q.session.username), q.session, NoUser)
          /\ UNCHANGED <<variant, users, reqs>>
     ELSE Start(q, "find")

\* await userCollection.find().toArray()
GetAdminFind(r) ==
  LET q == reqs[r] IN
  /\ UNCHANGED <<nreq, now>>
  /\ q.route = "GET /admin" /\ q.pc = "find"
  /\ Respond(q, Render("admin", ""), q.session, NoUser)
  /\ Done(r)
  /\ UNCHANGED <<variant, users>>

\* ------------------------------------------- GET /promote/:id, /demote/:id
\* new ObjectId(req.params.id) throws for a string that is no ObjectId.
ObjectIdThrows(id) == id = Malformed

\* The guards, then new ObjectId(...), then the first awaited call.
GetPromote(cookie, id) ==
  LET q == NewReq("GET /promote", cookie, NoBody, id)
      gate == AdminGate(variant, q.session) IN
  /\ Count
  /\ "GET /promote" \in Registered(variant)
  /\ IF gate.kind # "pass"
     THEN /\ Respond(q, gate, q.session, NoUser)
          /\ UNCHANGED <<variant, users, reqs>>
     ELSE IF ObjectIdThrows(id)
     THEN /\ Fail(q)
          /\ UNCHANGED <<variant, users, reqs>>
     ELSE Start(q, "updateOne")

\* await userCollection.updateOne({ _id }, { $set: { role: 'admin' } })
GetPromoteUpdateOne(r) ==
  LET q == reqs[r] IN
  /\ UNCHANGED <<nreq, now>>
  /\ q.route = "GET /promote" /\ q.pc = "updateOne"
  /\ users' = updateOne(users, q.id, "admin")
  /\ Respond(q, Redirect("/admin"), q.session, NoUser)
  /\ Done(r)
  /\ UNCHANGED variant

GetDemote(cookie, id) ==
  LET q == NewReq("GET /demote", cookie, NoBody, id)
      gate == AdminGate(variant, q.session) IN
  /\ Count
  /\ "GET /demote" \in Registered(variant)
  /\ IF gate.kind # "pass"
     THEN /\ Respond(q, gate, q.session, NoUser)
          /\ UNCHANGED <<variant, users, reqs>>
     ELSE IF ObjectIdThrows(id)
     THEN /\ Fail(q)
          /\ UNCHANGED <<variant, users, reqs>>
     ELSE Start(q, IF variant = "role" THEN "findOne" ELSE "updateOne")

\* Role variant: await userCollection.findOne({ _id }), then
\* user.email === req.session.email; user is null when no document matches
\* and reading user.email throws.
GetDemoteFindOne(r) ==
  LET q == reqs[r]
      user == findOneById(users, q.id) IN
  /\ UNCHANGED <<nreq, now>>
  /\ q.route = "GET /demote" /\ q.pc = "findOne"
  /\ IF user = NoUser
     THEN /\ Fail(q)
          /\ Done(r)
          /\ UNCHANGED <<variant, users>>
     ELSE IF user.email = q.session.email
     THEN /\ Respond(q, Redirect("/admin"), q.session, NoUser)
          /\ Done(r)
          /\ UNCHANGED <<variant, users>>
     ELSE /\ reqs' = [reqs EXCEPT ![r].pc = "updateOne"]
          /\ UNCHANGED <<variant, users, store, live, expiry, nextSid, last>>

\* await userCollection.updateOne({ _id }, { $set: { role: 'user' } })
GetDemoteUpdateOne(r) ==
  LET q == reqs[r] IN
  /\ UNCHANGED <<nreq, now>>
  /\ q.route = "GET /demote" /\ q.pc = "updateOne"
  /\ users' = updateOne(users, q.id, "user")
  /\ Respond(q, Redirect("/admin"), q.session, NoUser)
  /\ Done(r)
  /\ UNCHANGED variant

\* ------------------------------------------------------------ GET /logout
\* req.session.destroy(): the stored session of the request's id is
\* deleted and the request has no session left to save.
GetLogout(cookie) ==
  LET q == NewReq("GET /logout", cookie, NoBody, 0) IN
  /\ Count
  /\ "GET /logout" \in Registered(variant)
  /\ last' = [route |-> q.route, sessionID |-> q.sessionID, before |-> q.session,
              after |-> EmptySession, outcome |-> Redirect("/"), id |-> 0,
              doc |-> NoUser, sid |-> 0]
  /\ IF q.isNew
     THEN UNCHANGED <<store, live, expiry>>
     ELSE /\ store' = [store EXCEPT ![cookie] = EmptySession]
          /\ live' = live \ {cookie}
          /\ expiry' = [expiry EXCEPT ![cookie] = 0]
  /\ UNCHANGED <<variant, users, nextSid, reqs>>

\* ------------------------------------------------------------ 404 handler
NotFound(route, cookie) ==
  LET q == NewReq(route, cookie, NoBody, 0) IN
  /\ Count
  /\ route \notin Registered(variant)
  /\ Respond(q, Out(404, "render", "404", ""), q.session, NoUser)
  /\ UNCHANGED <<variant, users, reqs>>

\* ------------------------------------------------------------ environment
\* An awaited call (a collection operation, bcrypt) rejects.
Rejected(r) ==
  LET q == reqs[r] IN
  /\ UNCHANGED <<nreq, now>>
  /\ q.pc # "idle"
  /\ Fail(q)
  /\ Done(r)
  /\ UNCHANGED <<variant, users>>

\* The session store drops a session whose expiry has passed; this is the
\* store seen without a clock, where any stored session may be the one.
Expire(sid) ==
  /\ UNCHANGED <<nreq, now>>
  /\ sid \in live
  /\ live' = live \ {sid}
  /\ store' = [store EXCEPT ![sid] = EmptySession]
  /\ expiry' = [expiry EXCEPT ![sid] = 0]
  /\ UNCHANGED <<variant, users, nextSid, reqs, last>>

\* Time passes. A session document whose expires is reached is one the
\* store no longer returns and removes; it is dropped here at that moment.
Tick ==
  LET t == now + TickMs
      gone == {s \in live : expiry[s] <= t} IN
  /\ now < MaxTime * TickMs
  /\ now' = t
  /\ live' = live \ gone
  /\ store' = [s \in SessionIds |-> IF s \in gone THEN EmptySession ELSE store[s]]
  /\ expiry' = [s \in SessionIds |-> IF s \in gone THEN 0 ELSE expiry[s]]
  /\ UNCHANGED <<variant, users, nextSid, reqs, last, nreq>>

\* ------------------------------------------------------------------ spec
NoLast == [route |-> "", sessionID |-> 0, before |-> EmptySession,
           after |-> EmptySession, outcome |-> NoResponse, id |-> 0,
           doc |-> NoUser, sid |-> 0]

Init ==
  /\ variant \in Variants
  /\ users = <<Root>>
  /\ store = [s \in SessionIds |-> EmptySession]
  /\ live = {}
  /\ expiry = [s \in SessionIds |-> 0]
  /\ nextSid = 1
  /\ reqs = [r \in Slots |-> IdleReq]
  /\ last = NoLast
  /\ nreq = 0
  /\ now = 0

\* The steps of the requests.
Requests ==
  \/ \E c \in Cookies, b \in SignupBodies(variant) : PostSignup(c, b)
  \/ \E r \in Slots : PostSignupFindOne(r)
  \/ \E r \in Slots : PostSignupHash(r)
  \/ \E r \in Slots : PostSignupInsertOne(r)
  \/ \E c \in Cookies, b \in LoginBodies(variant) : PostLogin(c, b)
  \/ \E r \in Slots : PostLoginFindOne(r)
  \/ \E r \in Slots : PostLoginCompare(r)
  \/ \E c \in Cookies : GetMembers(c)
  \/ \E r \in Slots : GetMembersFindOne(r)
  \/ \E c \in Cookies : GetUser(c)
  \/ \E c \in Cookies : GetAdmin(c)
  \/ \E r \in Slots : GetAdminFind(r)
  \/ \E c \in Cookies, id \in IdParams : GetPromote(c, id)
  \/ \E r \in Slots : GetPromoteUpdateOne(r)
  \/ \E c \in Cookies, id \in IdParams : GetDemote(c, id)
  \/ \E r \in Slots : GetDemoteFindOne(r)
  \/ \E r \in Slots : GetDemoteUpdateOne(r)
  \/ \E c \in Cookies : GetLogout(c)
  \/ \E route \in AllRoutes, c \in Cookies : NotFound(route, c)
  \/ \E r \in Slots : Rejected(r)

Next ==
  \/ Requests
  \/ \E sid \in SessionIds : Expire(sid)

Spec == Init /\ [][Next]_vars

\* The application under a clock: the two variants that register every
\* kind of route (the session middleware and the maxAge assignments are the
\* same text in all five).
InitTime == Init /\ variant \in {"usertype", "role"}

NextTime ==
  \/ Requests
  \/ Tick

SpecTime == InitTime /\ [][NextTime]_vars

\* The validation of POST /signup and POST /login over every combination of
\* field values.
NextValidate ==
  \/ \E c \in Cookies, b \in AllSignupBodies : PostSignup(c, b)
  \/ \E c \in Cookies, b \in AllLoginBodies : PostLogin(c, b)

SpecValidate == Init /\ [][NextValidate]_vars

\* ============================================================== properties
AdminRoutes == {"GET /admin", "GET /promote", "GET /demote"}

AuthRoutes == AdminRoutes \cup {"GET /members", "GET /user"}

\* The response is the handler's own, not the outcome of a rejected call.
Answered(out) == out.status # 500 /\ out.kind # "none"

\* The role snapshot the session holds, whichever field carries it.
SnapshotAdmin(s) == s.role = "admin" \/ s.user.role = "admin"

\* The role the variant's access decisions read from the session.
GateRole(v, s) == IF v \in {"usertype", "nocatch"} THEN s.user.role ELSE s.role

\* r's request ends in this step.
Ends(r) == reqs[r].pc # "idle" /\ reqs'[r] = IdleReq

\* The step leaves every stored session as it is, except that the session
\* the request loaded is saved back as loaded.
SessionKept(q) ==
  /\ last'.after = q.session
  /\ live' = IF q.isNew THEN live ELSE live \cup {q.sessionID}
  /\ store' = IF q.isNew THEN store ELSE [store EXCEPT ![q.sessionID] = q.session]

\* C1: a session that is authenticated and holds no admin snapshot, however
\* it was established, gets 403 on every admin-only route the variant
\* registers.
C1_UserRoleForbidden ==
  ( /\ last.route \in AdminRoutes \cap Registered(variant)
    /\ last.before.authenticated
    /\ ~SnapshotAdmin(last.before) )
  => last.outcome.status = 403

\* C2: a stored role changes only in the update step of a promote or demote
\* request whose session is authenticated and holds an admin snapshot; so a
\* promote or demote of an anonymous or user-role session changes no role.
C2_RoleChangeOnlyByAdmin ==
  [][ (\E i \in 1..Len(users) : users'[i].role # users[i].role)
      => \E r \in Slots :
           /\ Ends(r)
           /\ reqs[r].route \in {"GET /promote", "GET /demote"}
           /\ reqs[r].pc = "updateOne"
           /\ reqs[r].session.authenticated
           /\ SnapshotAdmin(reqs[r].session) ]_vars

C2_Witness ==
  /\ variant = "role"
  /\ last.route = "GET /promote"
  /\ last.outcome = Redirect("/admin")
  /\ \E i \in 2..Len(users) : users[i].role = "admin"

\* C3: a demote by an admin session whose target is the document the session
\* was authenticated as leaves that document admin and redirects to /admin.
C3_SelfDemoteNoOp ==
  [][ \A r \in Slots :
        ( /\ Ends(r)
          /\ reqs[r].route = "GET /demote"
          /\ reqs[r].session.uid = reqs[r].id
          /\ users[reqs[r].id].role = "admin"
          /\ Answered(last'.outcome) )
        => /\ users'[reqs[r].id].role = "admin"
           /\ last'.outcome = Redirect("/admin") ]_vars

\* C4: no two User documents have the same email.
C4_UniqueEmail ==
  \A i, j \in 1..Len(users) : users[i].email = users[j].email => i = j

\* C5: when the lookup of a signup runs while a document with the request's
\* email is stored, the request ends there with the duplicate message, and
\* the documents and the session stay as they were.
C5_DuplicateSignup ==
  [][ \A r \in Slots :
        ( /\ PostSignupFindOne(r)
          /\ \E i \in 1..Len(users) : users[i].email = reqs[r].body.email )
        => /\ Ends(r)
           /\ last'.outcome = Render("signup", DuplicateMessage(variant))
           /\ users' = users
           /\ SessionKept(reqs[r]) ]_vars

C5_Witness ==
  /\ last.route = "POST /signup"
  /\ last.outcome = Render("signup", DuplicateMessage(variant))
  /\ Len(users) = 2
  /\ last.before.authenticated

\* C6: the document a successful signup creates has role user, and the
\* session the signup establishes carries role user (a document or a session
\* without a role is let through here: every gate reads it as no admin).
C6_SignupRoleUser ==
  (last.route = "POST /signup" /\ last.outcome.kind = "redirect")
  => /\ last.doc.role \in {"user", Undef}
     /\ GateRole(variant, last.after) \in {"user", Undef}

\* C7: a login whose email matches no document ends with "User not found",
\* a login with a password other than the one the document was created with
\* ends with "Incorrect password", and either leaves the session as loaded.
C7_FailedLoginKeepsSession ==
  [][ \A r \in Slots :
        /\ ( /\ PostLoginFindOne(r)
             /\ \A i \in 1..Len(users) : users[i].email # reqs[r].body.email )
           => /\ Ends(r)
              /\ last'.outcome = Render("login", "User not found")
              /\ SessionKept(reqs[r])
        /\ ( /\ PostLoginCompare(r)
             /\ reqs[r].found.password[4] # reqs[r].body.password )
           => /\ last'.outcome = Render("login", "Incorrect password")
              /\ SessionKept(reqs[r]) ]_vars

C7_Witness ==
  /\ last.route = "POST /login"
  /\ last.outcome = Render("login", "Incorrect password")
  /\ last.before.authenticated
  /\ last.sessionID \in live
  /\ store[last.sessionID] = last.before

\* C8: on a route that requires authentication, a session without
\* authenticated = true is redirected to /login, and a session with it is
\* not.
C8_AuthenticationCheck ==
  (last.route \in AuthRoutes \cap Registered(variant))
  => IF last.before.authenticated
     THEN last.outcome # Redirect("/login")
     ELSE last.outcome = Redirect("/login")

\* C9: after a successful signup or login on a session that was already
\* authenticated, the session's username, email and role are those of the
\* User just created or logged in; a field the variant does not keep in the
\* session is let through here, so what fails is data of the earlier
\* authentication that survives.
C9_SessionDescribesUser ==
  ( /\ last.route \in {"POST /signup", "POST /login"}
    /\ last.outcome.kind = "redirect"
    /\ last.before.authenticated )
  => /\ last.after.username = last.doc.name
     /\ last.after.email \in {last.doc.email, NoEmail}
     /\ GateRole(variant, last.after) \in {last.doc.role, Undef}

\* C10: a logout leaves no stored session under the request's id, and a
\* session id the store does not hold (never issued, logged out, expired)
\* comes to hold a session only by a successful signup or login (responses
\* to a rejected call set aside).
C10_AuthenticatedOnlyByLogin ==
  [][ /\ \A c \in Cookies : GetLogout(c) => c \notin live'
      /\ \A s \in SessionIds :
           (s \notin live /\ s \in live' /\ Answered(last'.outcome))
           => /\ last'.route \in {"POST /signup", "POST /login"}
              /\ last'.outcome.kind = "redirect"
              /\ last'.sid = s ]_vars

\* A request ends with a response in this step (an immediate response of
\* the step that receives it, or the last step of a pending request).
Responds == (nreq' # nreq /\ reqs' = reqs) \/ \E r \in Slots : Ends(r)

\* The session id and the session of the request received in this step.
Received ==
  IF reqs' # reqs
  THEN LET r == CHOOSE k \in Slots : reqs[k].pc = "idle" /\ reqs'[k].pc # "idle"
       IN [sessionID |-> reqs'[r].sessionID, session |-> reqs'[r].session]
  ELSE [sessionID |-> last'.sessionID, session |-> last'.before]

\* C11: the expiry of a stored session is one hour after its last write.
\* Every response to a request on a loaded session (a logout, which destroys
\* it, aside) leaves the session stored with its expiry one hour after the
\* present time; a stored session's expiry moves in no other step; when the
\* clock reaches the expiry of a session not written in between, the session
\* is stored no longer; and a request runs on a stored session that has not
\* expired or else on a new, empty session.
C11_SlidingExpiry ==
  [][ /\ ( /\ Responds
           /\ last'.outcome.kind # "none"
           /\ last'.sessionID # 0
           /\ last'.route # "GET /logout" )
         => /\ last'.sessionID \in live'
            /\ expiry'[last'.sessionID] = now + expireTime
      /\ \A s \in SessionIds :
           /\ (s \in live' /\ (s \notin live \/ expiry'[s] # expiry[s]))
              => /\ Responds /\ last'.sid = s
                 /\ expiry'[s] = now + expireTime
           /\ (s \in live /\ now' # now /\ now' >= expiry[s]) => s \notin live'
           /\ (s \in live /\ s \in live' /\ now' # now) => now' < expiry'[s]
      /\ nreq' # nreq
         => IF Received.sessionID \in live /\ now < expiry[Received.sessionID]
            THEN Received.session = store[Received.sessionID]
            ELSE Received.sessionID = 0 /\ Received.session = EmptySession
    ]_vars

\* A request was answered on a stored session three half-hours after the
\* start, and the session's expiry is one hour later.
C11_Witness ==
  /\ now = MaxTime * TickMs
  /\ last.route \in {"GET /members", "GET /user"}
  /\ last.outcome.kind = "render"
  /\ last.sessionID \in live
  /\ last.before.authenticated
  /\ expiry[last.sessionID] = now + expireTime

\* The session's role snapshot is admin, as the variant's guards read it.
GateAdmin(v, s) ==
  IF v \in {"usertype", "nocatch"} THEN s.user.role = "admin"
  ELSE s.authenticated /\ s.role = "admin"

\* The outcomes by which an admin-only route turns a request away.
Denied(v, out) == out \in {Redirect("/login"), Redirect("/"), Forbidden(v)}

\* C12: a step that changes a stored role leaves every stored session as it
\* was, the acting request's session being saved back as the request loaded
\* it;
\* every answer of an admin-only route and of /user follows the snapshot of
\* the session the request loaded, whatever the stored role of its User is
\* by then; only a successful login or signup changes the snapshot of the
\* session a request runs on, to the role of the document found or created;
\* and a stored session changes only by the save of such a session at the
\* end of a response.
C12_StaleSnapshot ==
  [][ /\ (\E i \in 1..Len(users) : users'[i].role # users[i].role)
         => \A s \in live' :
              IF \E r \in Slots : Ends(r) /\ reqs[r].sessionID = s
              THEN \E r \in Slots : /\ Ends(r) /\ reqs[r].sessionID = s
                                    /\ store'[s] = reqs[r].session
              ELSE s \in live /\ store'[s] = store[s]
      /\ (Responds /\ last'.route \in AdminRoutes \cap Registered(variant))
         => (Denied(variant, last'.outcome) <=> ~GateAdmin(variant, last'.before))
      /\ (Responds /\ last'.route = "GET /user" /\ "GET /user" \in Registered(variant))
         => (last'.outcome.kind = "render"
               <=> (last'.before.authenticated /\ last'.before.role = "user"))
      /\ ( /\ Responds
           /\ last'.route # "GET /logout"
           /\ GateRole(variant, last'.after) # GateRole(variant, last'.before) )
         => /\ last'.route \in {"POST /login", "POST /signup"}
            /\ last'.outcome.kind = "redirect"
            /\ GateRole(variant, last'.after) = last'.doc.role
      /\ \A s \in live \cap live' :
           store'[s] # store[s]
           => Responds /\ last'.sid = s /\ store'[s] = last'.after
    ]_vars

\* The admin dashboard was rendered for a session whose User has been
\* demoted since it logged in.
C12_Witness ==
  /\ last.route = "GET /admin"
  /\ last.outcome = Render("admin", "")
  /\ last.before.uid \in 1..Len(users)
  /\ users[last.before.uid].role = "user"
  /\ last.sessionID \in live

\* C13: an answered promote whose target is stored ends with the redirect to
\* /admin and leaves the target admin, and an answered demote that reaches
\* its update leaves the target with role user; when the target already had
\* that role, or the demote stops at the self-demotion check, no document
\* changes. So a second promote or demote of the same target finds the
\* role in place and changes nothing.
C13_Idempotent ==
  [][ \A r \in Slots :
        ( /\ Ends(r)
          /\ reqs[r].route \in {"GET /promote", "GET /demote"}
          /\ reqs[r].id \in 1..Len(users)
          /\ Answered(last'.outcome) )
        => LET id == reqs[r].id
               role == IF reqs[r].route = "GET /promote" THEN "admin" ELSE "user"
           IN /\ last'.outcome = Redirect("/admin")
              /\ Len(users') = Len(users)
              /\ IF reqs[r].pc = "updateOne"
                 THEN users'[id].role = role
                 ELSE users' = users
              /\ users[id].role = role => users' = users
    ]_vars

\* A demote of a User that already had role user was answered.
C13_Witness ==
  /\ variant = "role"
  /\ last.route = "GET /demote"
  /\ last.outcome = Redirect("/admin")
  /\ last.id = 2
  /\ Len(users) = 2
  /\ users[2].role = "user"

\* C14: a promote or demote that passed the admin check with a well-formed
\* id of no stored document, and was answered by its handler, is answered
\* with a not-found outcome (status 404), not with the success redirect.
C14_UnknownIdNotFound ==
  ( /\ last.route \in {"GET /promote", "GET /demote"}
    /\ GateAdmin(variant, last.before)
    /\ last.id # Malformed
    /\ last.id > Len(users)
    /\ Answered(last.outcome) )
  => /\ last.outcome.status = 404
     /\ last.outcome # Redirect("/admin")

\* The passwords requests carry.
Passwords == {"secret1", "secret2", "abc"}

\* C15: the document a signup inserts holds a value that is not the
\* password, that the password verifies against and no other password does;
\* and a login whose email is that of a stored document succeeds when its
\* password is the one that document was created with and ends with
\* "Incorrect password" when it is another.
C15_SignupThenLogin ==
  [][ \A r \in Slots :
        /\ PostSignupInsertOne(r)
           => LET d == users'[Len(users')]
                  p == reqs[r].body.password
              IN /\ d.email = reqs[r].body.email
                 /\ d.password # p
                 /\ bcryptCompare(p, d.password)
                 /\ \A q \in Passwords \ {p} : ~bcryptCompare(q, d.password)
                 /\ last'.outcome.kind = "redirect"
        /\ PostLoginCompare(r)
           => \A i \in 1..Len(users) :
                users[i].email = reqs[r].body.email
                => IF bcryptCompare(reqs[r].body.password, users[i].password)
                   THEN last'.outcome.kind = "redirect"
                   ELSE last'.outcome = Render("login", "Incorrect password")
    ]_vars

\* The landing route of a role in a variant: the admin dashboard for an
\* admin where the variant has one, and the page of a plain user otherwise
\* (the one /members of the fixed variant renders by role).
Landing(v, role) ==
  CASE v = "fixed" -> "/members"
    [] v \in {"usertype", "nocatch"} -> IF role = "admin" THEN "/admin" ELSE "/members"
    [] OTHER -> IF role = "admin" THEN "/admin" ELSE "/user"

\* C16: a successful signup or login redirects to the landing route of the
\* role of the User created or logged in.
C16_RedirectByRole ==
  (last.route \in {"POST /signup", "POST /login"} /\ last.outcome.kind = "redirect")
  => last.outcome.to = Landing(variant, last.doc.role)

\* What makes each field of a payload invalid, field by field.
NameInvalid(b) == b.name = Undef \/ b.name = "" \/ Len(b.name) > 50

EmailInvalid(b) == b.email = NoEmail \/ Len(b.email) # 2 \/ "" \in {b.email[1], b.email[2]}

PasswordInvalid(b, min) == b.password = Undef \/ Len(b.password) < min

\* The field a validation message is about.
FieldOf(msg) ==
  CASE msg \in {"name.required", "name.max"} -> "name"
    [] msg \in {"email.required", "email.email"} -> "email"
    [] msg \in {"password.required", "password.min"} -> "password"
    [] OTHER -> "none"

\* The first invalid field in the order name, email, password.
FirstInvalid(b, fields, min) ==
  IF "name" \in fields /\ NameInvalid(b) THEN "name"
  ELSE IF EmailInvalid(b) THEN "email"
  ELSE IF PasswordInvalid(b, min) THEN "password"
  ELSE "none"

\* C17: a signup or login whose payload has an invalid field (an absent one
\* included) is answered with its form and one message, the message of the
\* first invalid field in the order name, email, password (email, password
\* for a login).
C17_FirstInvalidField ==
  [][ /\ \A c \in Cookies, b \in AllSignupBodies :
           (PostSignup(c, b) /\ FirstInvalid(b, {"name"}, 6) # "none")
           => /\ last'.outcome.kind = "render" /\ last'.outcome.to = "signup"
              /\ FieldOf(last'.outcome.msg) = FirstInvalid(b, {"name"}, 6)
      /\ \A c \in Cookies, b \in AllLoginBodies :
           (PostLogin(c, b) /\ FirstInvalid(b, {}, 1) # "none")
           => /\ last'.outcome.kind = "render" /\ last'.outcome.to = "login"
              /\ FieldOf(last'.outcome.msg) = FirstInvalid(b, {}, 1)
    ]_vars

\* A login whose email is well-formed and whose password is absent or empty
\* was answered with the message of the password field.
C17_Witness ==
  /\ last.route = "POST /login"
  /\ last.outcome = Render("login", "password.required")
  /\ nreq = MaxRequests

\* C18: when bcrypt.hash or insertOne of a signup rejects, the request is
\* answered with status 500, no document is inserted, and the session is the
\* one the request loaded.
C18_SignupFailure ==
  [][ \A r \in Slots :
        ( /\ Rejected(r)
          /\ reqs[r].route = "POST /signup"
          /\ reqs[r].pc \in {"hash", "insertOne"} )
        => /\ last'.outcome.status = 500
           /\ last'.after = reqs[r].session
           /\ users' = users
    ]_vars

\* C19: a signup or login whose payload has an invalid field never reaches
\* an awaited call (lookup, hash, insert, compare): every pending signup and
\* login has a valid payload. The step that receives such a request answers
\* it with the form and a validation message, changes no document, and
\* leaves the session as the request loaded it, saved back as loaded (a new
\* session is not saved).
C19_InvalidNoEffect ==
  [][ /\ \A r \in Slots :
           /\ (reqs'[r].pc # "idle" /\ reqs'[r].route = "POST /signup")
              => FirstInvalid(reqs'[r].body, {"name"}, 6) = "none"
           /\ (reqs'[r].pc # "idle" /\ reqs'[r].route = "POST /login")
              => FirstInvalid(reqs'[r].body, {}, 1) = "none"
      /\ ( /\ nreq' # nreq /\ reqs' = reqs
           /\ last'.route \in {"POST /signup", "POST /login"} )
         => /\ last'.outcome.kind = "render"
            /\ FieldOf(last'.outcome.msg) # "none"
            /\ users' = users
            /\ last'.after = last'.before
            /\ IF last'.sessionID = 0
               THEN live' = live /\ store' = store
               ELSE /\ live' = live \cup {last'.sessionID}
                    /\ store' = [store EXCEPT ![last'.sessionID] = last'.before]
    ]_vars

\* An invalid signup on an authenticated session was answered and the
\* stored session is what it was.
C19_Witness ==
  /\ last.route = "POST /signup"
  /\ FieldOf(last.outcome.msg) # "none"
  /\ last.before.authenticated
  /\ last.sessionID \in live
  /\ store[last.sessionID] = last.before
  /\ \E r \in Slots : reqs[r].pc # "idle"

\* C20: a signup computes its hash only after its lookup: a signup whose
\* lookup step runs has computed no hash, and so has a signup that ends
\* with the duplicate message.
C20_LookupBeforeHash ==
  [][ \A r \in Slots :
        ( /\ reqs[r].route = "POST /signup"
          /\ reqs[r].pc = "findOne"
          /\ reqs'[r] # reqs[r] )
        => reqs[r].hashed = NoHash
    ]_vars

\* C21: every request ends with one response outcome that its handler
\* produced (a view, a redirect or an error status), also when an awaited
\* call rejects, when the id of a promote or demote request is malformed or
\* when it matches no User document: no request is left without a response
\* and no exception leaves the handler.
C21_EveryRequestAnswered ==
  last.route # "" =>
    /\ last.outcome.kind \in {"render", "redirect", "send"}
    /\ last.outcome.msg # "escaped"

\* The document but for its role.
SameButRole(d, e) == [d EXCEPT !.role = e.role] = e

SessionStates ==
  {store[s] : s \in live} \cup {reqs[r].session : r \in Slots}
    \cup {last.before, last.after}

\* C23: in the variants whose guards test req.session.user, every session
\* state that holds a user object has authenticated = true, so a session
\* passes isAuthenticated and isAdmin only with the authenticated flag set.
C23_UserImpliesAuthenticated ==
  variant \in {"usertype", "nocatch"} =>
    /\ \A s \in SessionStates :
         /\ s.user # NoUser => s.authenticated = TRUE
         /\ AdminGate(variant, s).kind = "pass" => s.authenticated = TRUE
    /\ ( /\ last.route \in AdminRoutes
         /\ last.outcome.kind # "none"
         /\ ~Denied(variant, last.outcome) )
       => last.before.authenticated = TRUE

\* The user_type variant rendered the admin dashboard for a stored session
\* that holds a user object and the authenticated flag.
C23_Witness ==
  /\ variant = "usertype"
  /\ last.route = "GET /admin"
  /\ last.outcome = Render("admin", "")
  /\ last.before.user # NoUser
  /\ last.sessionID \in live
  /\ store[last.sessionID].user # NoUser
  /\ store[last.sessionID].authenticated

\* Some User document has role admin.
HasAdmin(coll) == \E i \in 1..Len(coll) : coll[i].role = "admin"

\* C24: once some User document has role admin, every later state has a
\* User document with role admin, whatever promote and demote requests the
\* sessions that pass the admin check make.
C24_AdminRemains ==
  [][ HasAdmin(users) => HasAdmin(users') ]_vars

\* The last response is the redirect of a successful signup or login, and
\* the session it saved is stored as saved.
Established ==
  /\ last.route \in {"POST /signup", "POST /login"}
  /\ last.outcome.kind = "redirect"
  /\ last.sid \in live
  /\ store[last.sid] = last.after

\* The request for the path a response redirected to.
RouteOf(path) == CASE path = "/members" -> "GET /members"
                   [] path = "/user" -> "GET /user"
                   [] path = "/admin" -> "GET /admin"
                   [] OTHER -> ""

\* The route of the request received in this step.
ReceivedRoute ==
  IF reqs' # reqs
  THEN LET r == CHOOSE k \in Slots : reqs[k].pc = "idle" /\ reqs'[k].pc # "idle"
       IN reqs'[r].route
  ELSE last'.route

\* The views the route of the path renders for a session it admits.
LandingViews(path) ==
  CASE path = "/members" -> {"members", "admin", "user"}
    [] path = "/user" -> {"user"}
    [] path = "/admin" -> {"admin"}
    [] OTHER -> {}

\* C25: the route a successful signup or login redirects to admits the
\* session just established. A request for that route on that session,
\* received while the redirect is still the last response, is not turned
\* away at once; and when it is answered, the redirect still being the last
\* response and no awaited call having failed, it renders the landing view.
C25_LandingAdmits ==
  [][ Established =>
        /\ ( /\ nreq' # nreq
             /\ ReceivedRoute = RouteOf(last.outcome.to)
             /\ Received.sessionID = last.sid )
           => /\ Received.session = last.after
              /\ reqs' = reqs
                 => /\ last'.outcome.status = 200
                    /\ last'.outcome.kind = "render"
                    /\ last'.outcome.to \in LandingViews(last.outcome.to)
        /\ \A r \in Slots :
             ( /\ Ends(r)
               /\ reqs[r].route = RouteOf(last.outcome.to)
               /\ reqs[r].sessionID = last.sid
               /\ reqs[r].session = last.after
               /\ Answered(last'.outcome) )
             => /\ last'.outcome.status = 200
                /\ last'.outcome.kind = "render"
                /\ last'.outcome.to \in LandingViews(last.outcome.to)
    ]_vars

\* The user_type variant rendered the members page on the session of a
\* signup, the signup and this request being the only two requests made.
C25_Witness ==
  /\ variant = "usertype"
  /\ nreq = 2
  /\ last.route = "GET /members"
  /\ last.outcome.kind = "render" /\ last.outcome.to = "members"
  /\ last.before.authenticated
  /\ last.before.user = NoUser
  /\ last.sessionID \in live

====
